---- MODULE Spec2Model ----
(***************************************************************************)
(* Model of the page-side object window.strudelAudioAnalyzer injected by   *)
(* AudioAnalyzer.inject (src/src/StrudelController.ts, lines 163-400):     *)
(* the AudioNode.prototype.connect interception hook (GraphTap), analyze() *)
(* and the startRecording()/stopRecording() capture state machine,         *)
(* together with the host primitives they call (the native connect,        *)
(* MediaRecorder, FileReader, the clock).                                  *)
(***************************************************************************)
EXTENDS Integers, Sequences, FiniteSets, TLC

VARIABLES
    hooks,                 \* number of wrappers installed on AudioNode.prototype.connect
    analyser,              \* TapState
    dataArray,
    isConnected,
    lastConnectionTime,
    sourceNode,
    mediaRecorder,         \* CaptureState
    audioChunks,
    isRecording,
    recordingStartTime,
    recordingDestination,
    recorderState,         \* MediaRecorder.state of the recorder held in mediaRecorder
    onstop,                \* the promise whose resolver mediaRecorder.onstop holds (0: unset)
    stopQueued,            \* the recorder's queued task "fire dataavailable, fire stop"
    readers,               \* FileReaders in flight, each with the closure of its onloadend
    promises,              \* the promises returned by accepted stopRecording() calls
    edges,                 \* the real audio graph: <<from, to>> connections
    created,               \* the analysis nodes created so far, in order
    ops,                   \* calls made so far
    captures,              \* stream destinations / recorders allocated so far
    emitted,               \* the chunks the current recorder has emitted, empty ones included
    now,                   \* Date.now(), in milliseconds
    ret,                   \* what the last public operation or intercepted call returned
    calls,                 \* the native connect invocations made by the last operation
    browser,               \* StrudelController: this.browser (0: null)
    page,                  \* this.page (0: null)
    injected,              \* window.strudelAudioAnalyzer exists on the page held
    launched               \* browsers launched so far

tapVars == <<analyser, dataArray, isConnected, lastConnectionTime, sourceNode>>
captureVars == <<mediaRecorder, audioChunks, isRecording, recordingStartTime,
                 recordingDestination>>
hostVars == <<recorderState, onstop, stopQueued, readers, promises, captures, emitted>>
controllerVars == <<browser, page, injected, launched>>
vars == <<hooks, tapVars, captureVars, hostVars, edges, created, ops, now, ret,
          calls, controllerVars>>

----------------------------------------------------------------------------
(* Bounds of the model.                                                    *)

\* Calls made in one run: installs of the hook, connect() calls of the host's
\* graph, analyze(), startRecording() and stopRecording().  The events that
\* follow from them (timeslices, the stop task, FileReader completion) and
\* the clock are not counted.
MaxOps == 4
MaxTime == 1         \* clock ticks
MaxChunks == 1       \* timeslice chunks emitted in one capture

(* Program constants.                                                      *)

FftSize == 2048

----------------------------------------------------------------------------
(* Audio nodes: the constructor name, the owning AudioContext, an identity.*)

Node(kind, ctx, id) == [kind |-> kind, ctx |-> ctx, id |-> id]

Null == Node("null", "none", 0)

Contexts == {"c1", "c2"}

\* The nodes of the host's synthesis graph on which connect() is invoked.
Sources == {Node("GainNode", "c1", 1), Node("GainNode", "c1", 2), Node("GainNode", "c2", 3)}

\* ctx.destination, the terminal output sink of a context.
Destination(ctx) == Node("AudioDestinationNode", ctx, 0)

\* Some other node of the context, a non-output connection target.
Filter(ctx) == Node("BiquadFilterNode", ctx, 0)

AnalyserNode(ctx, id) == Node("AnalyserNode", ctx, id)

StreamDestination(ctx, id) == Node("MediaStreamAudioDestinationNode", ctx, id)

\* new Uint8Array(analyser.frequencyBinCount): the buffer allocated for an analyser.
NoBuffer == [of |-> 0, length |-> 0]

Buffer(id) == [of |-> id, length |-> FftSize \div 2]

\* What an operation handed back.
\* outcome: "value" (a plain return), "error" ({error: msg}), "success",
\* "features", "promise" (a promise not yet settled when the call returns),
\* "rejected" (a promise already rejected) or "throw" (an exception propagates).
\* connected: the connected field of analyze()'s result; input: the receiver
\* and argument list of an intercepted connect call, or the magnitudes
\* analyze() read; features: the features field of analyze()'s result.
NoFeatures ==
    [average |-> 0, peak |-> 0, peakFrequency |-> 0, centroid |-> 0,
     bass |-> 0, lowMid |-> 0, mid |-> 0, highMid |-> 0, treble |-> 0,
     isPlaying |-> FALSE, isSilent |-> FALSE,
     bassToTrebleRatio |-> [defined |-> FALSE, hundredths |-> 0],
     brightness |-> "none"]

Ret(op, outcome, msg, value, promise) ==
    [op |-> op, outcome |-> outcome, msg |-> msg, value |-> value, promise |-> promise,
     connected |-> "absent", input |-> <<>>, features |-> NoFeatures]

NoRet == Ret("none", "none", "", Null, 0)

----------------------------------------------------------------------------
(* GraphTap: the wrapper installed on AudioNode.prototype.connect.  The    *)
(* wrapper reads and writes window.strudelAudioAnalyzer and calls the      *)
(* connect it replaced, so its effect is threaded through a record st of   *)
(* the tap state, the real graph and the log of native invocations.        *)

CurSt ==
    [analyser |-> analyser, dataArray |-> dataArray, isConnected |-> isConnected,
     lastConnectionTime |-> lastConnectionTime, sourceNode |-> sourceNode,
     edges |-> edges, created |-> created, calls |-> <<>>,
     thrown |-> "", result |-> Null]

\* The native AudioNode.prototype.connect(destination, output, input): it
\* returns the destination node, and throws a TypeError without a destination.
NativeConnect(st, recv, args) ==
    LET logged == [st EXCEPT !.calls = Append(@, [recv |-> recv, args |-> args])]
    IN  IF Len(args) = 0
        THEN [logged EXCEPT !.thrown = "TypeError"]
        ELSE [logged EXCEPT !.edges = @ \cup {<<recv, args[1]>>}, !.result = args[1]]

\* args[0] ? args[0].constructor.name : 'undefined'
DestType(args) == IF Len(args) > 0 THEN args[1].kind ELSE "undefined"

IsDestination(args) == DestType(args) = "AudioDestinationNode"

\* !analyser || analyser.context !== ctx
NeedsAnalyser(st, ctx) == st.analyser = Null \/ st.analyser.ctx # ctx

\* A variant that creates the analysis node and allocates no buffer for it.
CreateAnalyserWithoutBuffer(st, ctx) ==
    LET id == Len(st.created) + 1
    IN  [st EXCEPT !.analyser = AnalyserNode(ctx, id),
                   !.created = Append(@, AnalyserNode(ctx, id))]

\* ctx.createAnalyser(), fftSize = 2048, new Uint8Array(frequencyBinCount)
CreateAnalyser(st, ctx) ==
    LET id == Len(st.created) + 1
    IN  [st EXCEPT !.analyser = AnalyserNode(ctx, id),
                   !.dataArray = Buffer(id),
                   !.created = Append(@, AnalyserNode(ctx, id))]

\* A variant of the hook that does not record the source node.
KeepSource(st, recv) == st

\* strudelAudioAnalyzer.sourceNode = this
RecordSource(st, recv) == [st EXCEPT !.sourceNode = recv]

\* A variant of the forwarding call that passes on the destination only.
ForwardedDestinationOnly(args) == IF Len(args) > 0 THEN <<args[1]>> ELSE args

\* originalConnect.apply(this, args): the argument list is passed on as it came.
ForwardedArgs(args) == args

\* The connect reached through k stacked wrappers; level 0 is the native one.
\* Each wrapper's originalConnect is the connect that was installed before it.
RECURSIVE Invoke(_, _, _, _)
Invoke(k, st, recv, args) ==
    IF k = 0 THEN NativeConnect(st, recv, args)
    ELSE IF IsDestination(args)
    THEN LET ctx == recv.ctx
             destination == args[1]
             st1 == IF NeedsAnalyser(st, ctx) THEN CreateAnalyser(st, ctx) ELSE st
             st2 == RecordSource(st1, recv)
             st3 == Invoke(k - 1, st2, recv, <<st2.analyser>>)
             result == st3.result
             st4 == IF st3.thrown # "" THEN st3
                    ELSE Invoke(k - 1, st3, st3.analyser, <<destination>>)
         IN  IF st4.thrown # "" THEN st4
             ELSE [st4 EXCEPT !.isConnected = TRUE,
                              !.lastConnectionTime = now,
                              !.result = result]
    ELSE Invoke(k - 1, st, recv, ForwardedArgs(args))

\* The argument lists the host passes to connect on a node of its graph.
ConnectArgs(recv) ==
    {<<>>,
     <<Destination(recv.ctx)>>, <<Destination(recv.ctx), 0>>,
     <<Filter(recv.ctx)>>, <<Filter(recv.ctx), 0, 0>>}

\* The host's graph calls recv.connect(...args): the installed hook runs.
Connect(recv, args) ==
    LET st == Invoke(hooks, CurSt, recv, args)
    IN  /\ analyser' = st.analyser
        /\ dataArray' = st.dataArray
        /\ isConnected' = st.isConnected
        /\ lastConnectionTime' = st.lastConnectionTime
        /\ sourceNode' = st.sourceNode
        /\ edges' = st.edges
        /\ created' = st.created
        /\ calls' = st.calls
        /\ ret' = [(IF st.thrown # ""
                    THEN Ret("connect", "throw", st.thrown, Null, 0)
                    ELSE Ret("connect", "value", "", st.result, 0))
                   EXCEPT !.input = <<recv, args>>]
        /\ UNCHANGED <<hooks, captureVars, hostVars, now>>

\* strudelAudioAnalyzer.connect(): wraps whatever connect is installed now.
Install ==
    /\ hooks' = hooks + 1
    /\ ret' = Ret("install", "value", "", Null, 0)
    /\ calls' = <<>>
    /\ UNCHANGED <<tapVars, captureVars, hostVars, edges, created, now>>

\* The clock advances: Date.now() is in milliseconds, a tick of the model is
\* 50 of them.
Tick ==
    /\ now < 50 * MaxTime
    /\ now' = now + 50
    /\ UNCHANGED <<hooks, tapVars, captureVars, hostVars, edges, created, ops, ret, calls,
                   controllerVars>>

----------------------------------------------------------------------------
(* SpectralAnalyzer.                                                       *)

\* !this.analyser || !this.isConnected
NotConnected == analyser = Null \/ ~isConnected

\* {connected: false, error: 'Analyzer not connected'}
NotConnectedResult ==
    [Ret("analyze", "error", "Analyzer not connected", Null, 0) EXCEPT !.connected = "false"]

\* A variant of analyze() that reads the spectrum before it checks the connection:
\* without an analysis node the read is a call on null.
AnalyzeReadsFirst(getThrows) ==
    /\ ret' = IF analyser = Null \/ getThrows
              THEN Ret("analyze", "throw", "TypeError", Null, 0)
              ELSE IF NotConnected THEN NotConnectedResult
              ELSE [Ret("analyze", "features", "", Null, 0) EXCEPT !.connected = "true"]
    /\ calls' = <<>>
    /\ UNCHANGED <<hooks, tapVars, captureVars, hostVars, edges, created, now>>

\* A variant of analyze() that refreshes the connection stamp when it reads.
AnalyzeStampsTime(getThrows) ==
    /\ ret' = IF NotConnected
              THEN NotConnectedResult
              ELSE IF getThrows
              THEN Ret("analyze", "throw", "TypeError", Null, 0)
              ELSE [Ret("analyze", "features", "", Null, 0) EXCEPT !.connected = "true"]
    /\ lastConnectionTime' = IF NotConnected THEN lastConnectionTime ELSE now
    /\ calls' = <<>>
    /\ UNCHANGED <<hooks, analyser, dataArray, isConnected, sourceNode, captureVars,
                   hostVars, edges, created, now>>

\* analyze(); getThrows: analyser.getByteFrequencyData raises.
Analyze(getThrows) ==
    /\ ret' = IF NotConnected
              THEN NotConnectedResult
              ELSE IF getThrows
              THEN Ret("analyze", "throw", "TypeError", Null, 0)
              ELSE [Ret("analyze", "features", "", Null, 0) EXCEPT !.connected = "true"]
    /\ calls' = <<>>
    /\ UNCHANGED <<hooks, tapVars, captureVars, hostVars, edges, created, now>>

\* The feature computation of analyze(), lines 232-285, on the magnitudes
\* data[0 .. length-1] that getByteFrequencyData wrote.  Quotients are kept
\* exact: a value the code rounds to one decimal is given in tenths.

\* analyser.frequencyBinCount, the length of dataArray
Bins == FftSize \div 2

\* data.slice(lo, hi).reduce((a, b) => a + b, 0)
RECURSIVE SumSlice(_, _, _)
SumSlice(data, lo, hi) ==
    IF hi <= lo THEN 0
    ELSE IF hi = lo + 1 THEN data[lo]
    ELSE LET half == (lo + hi) \div 2
         IN  SumSlice(data, lo, half) + SumSlice(data, half, hi)

\* weightedSum += i * mag, over the indices lo .. hi-1
RECURSIVE WeightedSum(_, _, _)
WeightedSum(data, lo, hi) ==
    IF hi <= lo THEN 0
    ELSE IF hi = lo + 1 THEN lo * data[lo]
    ELSE LET half == (lo + hi) \div 2
         IN  WeightedSum(data, lo, half) + WeightedSum(data, half, hi)

\* Math.max(...data), over the indices lo .. hi-1
RECURSIVE MaxSlice(_, _, _)
MaxSlice(data, lo, hi) ==
    IF hi = lo + 1 THEN data[lo]
    ELSE LET half == (lo + hi) \div 2
             a == MaxSlice(data, lo, half)
             b == MaxSlice(data, half, hi)
         IN  IF a >= b THEN a ELSE b

\* data.indexOf(peak): the first index holding the value
IndexOf(data, length, value) ==
    CHOOSE i \in 0..(length - 1) :
        data[i] = value /\ \A j \in 0..(i - 1) : data[j] # value

\* Math.round(num / den) for num >= 0, den > 0: halves round up
Round(num, den) == (num \div den) + (IF 2 * (num % den) >= den THEN 1 ELSE 0)

\* A variant of the band mean that divides by the end index of the slice.
BandMeanByEnd(data, lo, hi, count) == [num |-> SumSlice(data, lo, hi), den |-> hi]

\* data.slice(lo, hi).reduce((a, b) => a + b, 0) / count, as a fraction
BandMean(data, lo, hi, count) == [num |-> SumSlice(data, lo, hi), den |-> count]

Features(data) ==
    LET length == Bins
        sum == SumSlice(data, 0, length)
        bass == BandMean(data, 0, 8, 8)
        lowMid == BandMean(data, 8, 32, 24)
        mid == BandMean(data, 32, 128, 96)
        highMid == BandMean(data, 128, 256, 128)
        treble == BandMean(data, 256, 512, 256)
        peak == MaxSlice(data, 0, length)
        peakIndex == IndexOf(data, length, peak)
        weightedSum == WeightedSum(data, 0, length)
        magnitudeSum == sum
        \* centroid > t, for centroid = magnitudeSum > 0 ? weightedSum / magnitudeSum : 0
        CentroidAbove(t) == magnitudeSum > 0 /\ weightedSum > t * magnitudeSum
    IN  [average |-> Round(10 * sum, length),                       \* tenths
         peak |-> peak,
         peakFrequency |-> Round(peakIndex * 22050, length),
         centroid |-> IF magnitudeSum > 0
                      THEN Round(10 * weightedSum, magnitudeSum)    \* tenths
                      ELSE 0,
         bass |-> Round(bass.num, bass.den),
         lowMid |-> Round(lowMid.num, lowMid.den),
         mid |-> Round(mid.num, mid.den),
         highMid |-> Round(highMid.num, highMid.den),
         treble |-> Round(treble.num, treble.den),
         isPlaying |-> sum > 5 * length,
         isSilent |-> sum < length,
         \* treble > 0 ? (bass / treble).toFixed(2) : 'N/A'
         bassToTrebleRatio |->
             IF treble.num > 0
             THEN [defined |-> TRUE,
                   hundredths |-> Round(100 * bass.num * treble.den, bass.den * treble.num)]
             ELSE [defined |-> FALSE, hundredths |-> 0],
         brightness |-> IF CentroidAbove(500) THEN "bright"
                        ELSE IF CentroidAbove(200) THEN "balanced"
                        ELSE "dark"]

\* A spectrum in which every bin has magnitude v.
Uniform(v) == [i \in 0..(Bins - 1) |-> v]

\* The magnitudes getByteFrequencyData can deliver that the model draws from:
\* every uniform spectrum, a low-pass one, a high-pass one, a single tone.
Spectra ==
    {Uniform(v) : v \in 0..255}
        \cup {[i \in 0..(Bins - 1) |-> IF i < 128 THEN 200 ELSE 0],
              [i \in 0..(Bins - 1) |-> IF i < 600 THEN 0 ELSE 90],
              [i \in 0..(Bins - 1) |-> IF i = 300 THEN 255 ELSE 0]}

\* The features of each of these spectra.
FeaturesOf == [data \in Spectra |-> Features(data)]

\* analyze() when getByteFrequencyData delivers data, with the features it
\* computes from them.
AnalyzeData(data) ==
    /\ ret' = IF NotConnected
              THEN NotConnectedResult
              ELSE [Ret("analyze", "features", "", Null, 0)
                      EXCEPT !.connected = "true", !.input = data,
                             !.features = FeaturesOf[data]]
    /\ calls' = <<>>
    /\ UNCHANGED <<hooks, tapVars, captureVars, hostVars, edges, created, ops, now>>

----------------------------------------------------------------------------
(* CaptureSession.                                                         *)

\* The points at which a host primitive of startRecording() can fail:
\* "nocap": ctx.createMediaStreamDestination is not a function;
\* "dest", "connect", "ctor", "start": createMediaStreamDestination,
\* sourceNode.connect, new MediaRecorder, mediaRecorder.start throws.
StartFailures == {"none", "nocap", "dest", "connect", "ctor", "start"}

FailMessage(fail) ==
    CASE fail = "nocap" ->
           "Audio context does not support MediaStreamDestination. This is a browser/context limitation."
      [] fail = "dest" -> "NotSupportedError: createMediaStreamDestination"
      [] fail = "connect" -> "InvalidAccessError: connect"
      [] fail = "ctor" -> "NotSupportedError: MediaRecorder"
      [] fail = "start" -> "InvalidStateError: start"
      [] OTHER -> ""

\* A variant of the check at the head of startRecording() that asks the
\* recorder whether it is recording instead of reading the session's flag.
AlreadyRecordingByRecorderState == isRecording /\ recorderState = "recording"

\* if (this.isRecording)
AlreadyRecording == isRecording

\* A variant of the checks that leaves out the one for the analysis node.
StartChecksWithoutAnalyser(recording, an, src) ==
    IF recording THEN "Already recording"
    ELSE IF src = Null THEN "Source node not available - play pattern first"
    ELSE ""

\* The precondition checks of startRecording(), in order, as a function of
\* the fields they read; "" when all pass.
StartChecks(recording, an, src) ==
    IF recording THEN "Already recording"
    ELSE IF an = Null THEN "Analyzer not connected - play pattern first"
    ELSE IF src = Null THEN "Source node not available - play pattern first"
    ELSE ""

StartPrecondition == StartChecks(AlreadyRecording, analyser, sourceNode)

\* A chunk the recorder hands to ondataavailable.
Chunk(capture, n, size) == [capture |-> capture, n |-> n, size |-> size]

\* A variant of ondataavailable that keeps every chunk.
OnDataAvailableKeepsAll(chunks, chunk) == Append(chunks, chunk)

\* ondataavailable: if (event.data.size > 0) this.audioChunks.push(event.data)
OnDataAvailable(chunks, chunk) == IF chunk.size > 0 THEN Append(chunks, chunk) ELSE chunks

\* startRecording()
StartRecording(fail) ==
    LET id == captures + 1
        dest == StreamDestination(sourceNode.ctx, id)
        wired == Invoke(hooks, CurSt, sourceNode, <<dest>>)
        reachedDest == fail \notin {"nocap", "dest"}
        reachedConnect == reachedDest /\ fail # "connect"
        reachedCtor == reachedConnect /\ fail # "ctor"
        reachedStart == reachedCtor /\ fail # "start"
    IN  IF StartPrecondition # ""
        THEN /\ fail = "none"
             /\ ret' = Ret("startRecording", "error", StartPrecondition, Null, 0)
             /\ calls' = <<>>
             /\ UNCHANGED <<hooks, tapVars, captureVars, hostVars, edges, created, now>>
        ELSE /\ captures' = IF reachedDest THEN id ELSE captures
             /\ recordingDestination' = IF reachedDest THEN dest ELSE recordingDestination
             /\ edges' = IF reachedConnect THEN wired.edges ELSE edges
             /\ calls' = IF reachedConnect THEN wired.calls ELSE <<>>
             /\ mediaRecorder' = IF reachedCtor THEN id ELSE mediaRecorder
             /\ audioChunks' = IF reachedCtor THEN <<>> ELSE audioChunks
             /\ onstop' = IF reachedCtor THEN 0 ELSE onstop
             /\ emitted' = IF reachedCtor THEN <<>> ELSE emitted
             /\ recorderState' = IF reachedStart THEN "recording"
                                 ELSE IF reachedCtor THEN "inactive" ELSE recorderState
             /\ isRecording' = IF reachedStart THEN TRUE ELSE isRecording
             /\ recordingStartTime' = IF reachedStart THEN now ELSE recordingStartTime
             /\ ret' = IF reachedStart
                       THEN Ret("startRecording", "success", "Recording started", Null, 0)
                       ELSE Ret("startRecording", "error", FailMessage(fail), Null, 0)
             /\ UNCHANGED <<hooks, tapVars, stopQueued, readers, promises, created, now>>

\* The recorder's timeslice elapses while it records: a dataavailable event.
DataAvailable(size) ==
    /\ recorderState = "recording"
    /\ Len(emitted) < MaxChunks
    /\ LET chunk == Chunk(mediaRecorder, Len(emitted) + 1, size)
       IN  /\ emitted' = Append(emitted, chunk)
           /\ audioChunks' = OnDataAvailable(audioChunks, chunk)
    /\ UNCHANGED <<hooks, tapVars, mediaRecorder, isRecording, recordingStartTime,
                   recordingDestination, recorderState, onstop, stopQueued, readers,
                   promises, captures, edges, created, ops, now, ret, calls>>

\* A variant of the check at the head of stopRecording() that looks at the
\* recorder handle alone.
NotCurrentlyRecordingByHandle == mediaRecorder = 0

\* if (!this.isRecording || !this.mediaRecorder)
NotCurrentlyRecording == ~isRecording \/ mediaRecorder = 0

\* A promise returned by stopRecording(): its state, how often its resolve
\* function was called, and the value it was resolved with (the duration in
\* tenths of a second, the chunks of the blob).
NoResult == [duration |-> 0, blob |-> <<>>]

Promise(state) == [state |-> state, resolves |-> 0, result |-> NoResult]

\* stopRecording(); legacy: the host's MediaRecorder.stop() raises
\* InvalidStateError on an inactive recorder instead of doing nothing.
StopRecording(legacy) ==
    IF NotCurrentlyRecording
    THEN /\ ~legacy
         /\ ret' = Ret("stopRecording", "error", "Not currently recording", Null, 0)
         /\ calls' = <<>>
         /\ UNCHANGED <<hooks, tapVars, captureVars, hostVars, edges, created, now>>
    ELSE LET p == Len(promises) + 1
             active == recorderState = "recording"
             throws == ~active /\ legacy
         IN  /\ active => ~legacy
             /\ onstop' = p
             /\ recorderState' = "inactive"
             /\ stopQueued' = (stopQueued \/ active)
             /\ promises' = Append(promises, Promise(IF throws THEN "rejected" ELSE "pending"))
             /\ ret' = IF throws
                       THEN Ret("stopRecording", "rejected", "InvalidStateError: stop", Null, p)
                       ELSE Ret("stopRecording", "promise", "", Null, p)
             /\ calls' = <<>>
             /\ UNCHANGED <<hooks, tapVars, captureVars, readers, captures, emitted,
                            edges, created, now>>

\* The task queued by MediaRecorder.stop(): a last dataavailable event, then
\* the stop event, whose handler builds the blob and starts a FileReader.
StopEvent(size) ==
    /\ stopQueued
    /\ stopQueued' = FALSE
    /\ LET chunk == Chunk(mediaRecorder, Len(emitted) + 1, size)
           chunks == OnDataAvailable(audioChunks, chunk)
       IN  /\ emitted' = Append(emitted, chunk)
           /\ audioChunks' = chunks
           /\ readers' = IF onstop = 0 THEN readers
                         ELSE readers \cup {[promise |-> onstop,
                                             duration |-> now - recordingStartTime,
                                             blob |-> chunks]}
    /\ UNCHANGED <<hooks, tapVars, mediaRecorder, isRecording, recordingStartTime,
                   recordingDestination, recorderState, onstop, promises, captures,
                   edges, created, ops, now, ret, calls>>

\* sourceNode.disconnect(recordingDestination) inside the try/catch: the native
\* disconnect removes the connection, or throws when there is none.
Disconnect(graph) ==
    IF sourceNode # Null /\ recordingDestination # Null
       /\ sourceNode.ctx = recordingDestination.ctx
    THEN graph \ {<<sourceNode, recordingDestination>>}
    ELSE graph

\* resolve(value) on promise p: only the first call on a pending promise settles it.
Resolve(ps, p, value) ==
    [ps EXCEPT ![p] = [state |-> IF @.state = "pending" THEN "resolved" ELSE @.state,
                       resolves |-> @.resolves + 1,
                       result |-> IF @.state = "pending" THEN value ELSE @.result]]

\* A variant of the reported duration that cuts the second decimal off.
ReportedDurationTruncated(ms) == ms \div 100

\* Math.round(duration * 10) / 10 for duration = ms / 1000, in tenths of a second
ReportedDuration(ms) == Round(ms, 100)

\* A variant of reader.onloadend that does not empty audioChunks.
LoadEndKeepsChunks(r) ==
    /\ r \in readers
    /\ readers' = readers \ {r}
    /\ isRecording' = FALSE
    /\ edges' = Disconnect(edges)
    /\ recordingDestination' = Null
    /\ promises' = Resolve(promises, r.promise,
                           [duration |-> ReportedDuration(r.duration), blob |-> r.blob])
    /\ UNCHANGED <<hooks, tapVars, mediaRecorder, audioChunks, recordingStartTime,
                   recorderState, onstop, stopQueued, captures, emitted, created, ops,
                   now, ret, calls>>

\* reader.onloadend: the capture is finalized and the stop() promise resolved.
LoadEnd(r) ==
    /\ r \in readers
    /\ readers' = readers \ {r}
    /\ isRecording' = FALSE
    /\ audioChunks' = <<>>
    /\ edges' = Disconnect(edges)
    /\ recordingDestination' = Null
    /\ promises' = Resolve(promises, r.promise,
                           [duration |-> ReportedDuration(r.duration), blob |-> r.blob])
    /\ UNCHANGED <<hooks, tapVars, mediaRecorder, recordingStartTime, recorderState,
                   onstop, stopQueued, captures, emitted, created, ops, now, ret,
                   calls>>

----------------------------------------------------------------------------
(* The state after AudioAnalyzer.inject: the object literal, then connect().*)

Injected ==
    /\ hooks = 1
    /\ analyser = Null
    /\ dataArray = NoBuffer
    /\ isConnected = FALSE
    /\ lastConnectionTime = 0
    /\ sourceNode = Null
    /\ mediaRecorder = 0
    /\ audioChunks = <<>>
    /\ isRecording = FALSE
    /\ recordingStartTime = 0
    /\ recordingDestination = Null
    /\ recorderState = "inactive"
    /\ onstop = 0
    /\ stopQueued = FALSE
    /\ readers = {}
    /\ promises = <<>>
    /\ edges = {}
    /\ created = <<>>
    /\ ops = 0
    /\ captures = 0
    /\ emitted = <<>>
    /\ now = 0
    /\ ret = NoRet
    /\ calls = <<>>

\* The controller after a successful initialize().
Initialized ==
    /\ browser = 1
    /\ page = 1
    /\ injected = TRUE
    /\ launched = 1

Init == Injected /\ Initialized

\* One more call is made, within the bound on calls.
Budget == ops < MaxOps /\ ops' = ops + 1

CallInstall == Budget /\ Install /\ UNCHANGED controllerVars

CallConnect ==
    /\ Budget
    /\ \E recv \in Sources : \E args \in ConnectArgs(recv) : Connect(recv, args)
    /\ UNCHANGED controllerVars

CallAnalyze == Budget /\ (\E getThrows \in BOOLEAN : Analyze(getThrows)) /\ UNCHANGED controllerVars

CallStartRecording ==
    Budget /\ (\E fail \in StartFailures : StartRecording(fail)) /\ UNCHANGED controllerVars

CallStopRecording ==
    Budget /\ (\E legacy \in BOOLEAN : StopRecording(legacy)) /\ UNCHANGED controllerVars

EncoderChunk == (\E size \in {0, 1} : DataAvailable(size)) /\ UNCHANGED controllerVars

EncoderStop == (\E size \in {0, 1} : StopEvent(size)) /\ UNCHANGED controllerVars

ReaderDone == (\E r \in readers : LoadEnd(r)) /\ UNCHANGED controllerVars

Next ==
    \/ CallInstall
    \/ CallConnect
    \/ CallAnalyze
    \/ CallStartRecording
    \/ CallStopRecording
    \/ Tick
    \/ EncoderChunk
    \/ EncoderStop
    \/ ReaderDone

Spec == Init /\ [][Next]_vars

(* The feature computation on its own: a session on which one output       *)
(* connection has been intercepted, then analyze() on any of the spectra.  *)

FirstSource == Node("GainNode", "c1", 1)

InitFeatures ==
    /\ hooks = 1
    /\ analyser = AnalyserNode("c1", 1)
    /\ dataArray = Buffer(1)
    /\ isConnected = TRUE
    /\ lastConnectionTime = 0
    /\ sourceNode = FirstSource
    /\ mediaRecorder = 0
    /\ audioChunks = <<>>
    /\ isRecording = FALSE
    /\ recordingStartTime = 0
    /\ recordingDestination = Null
    /\ recorderState = "inactive"
    /\ onstop = 0
    /\ stopQueued = FALSE
    /\ readers = {}
    /\ promises = <<>>
    /\ edges = {<<FirstSource, AnalyserNode("c1", 1)>>,
                <<AnalyserNode("c1", 1), Destination("c1")>>}
    /\ created = <<AnalyserNode("c1", 1)>>
    /\ ops = 0
    /\ captures = 0
    /\ emitted = <<>>
    /\ now = 0
    /\ ret = NoRet
    /\ calls = <<>>
    /\ Initialized

CallAnalyzeData == (\E data \in Spectra : AnalyzeData(data)) /\ UNCHANGED controllerVars

NextFeatures == CallAnalyzeData

SpecFeatures == InitFeatures /\ [][NextFeatures]_vars

----------------------------------------------------------------------------
(* StrudelController (lines 4-159): the browser and page it holds, and the  *)
(* operations that need them.  The page, once injected, carries a session  *)
(* in the state Injected.                                                  *)

\* The awaited steps of initialize() that can reject.
InitFailures ==
    {"none", "launch", "newContext", "newPage", "goto", "waitForSelector", "inject"}

\* initialize(); fail: the awaited step that rejects.
Initialize(fail) ==
    IF browser # 0
    THEN /\ fail = "none"
         /\ ret' = Ret("initialize", "value", "Already initialized", Null, 0)
         /\ UNCHANGED controllerVars
    ELSE LET id == launched + 1
             reachedBrowser == fail # "launch"
             reachedPage == fail \notin {"launch", "newContext", "newPage"}
         IN  /\ launched' = IF reachedBrowser THEN id ELSE launched
             /\ browser' = IF reachedBrowser THEN id ELSE browser
             /\ page' = IF reachedPage THEN id ELSE page
             /\ injected' = (fail = "none")
             /\ ret' = IF fail = "none"
                       THEN Ret("initialize", "value", "Strudel initialized successfully",
                                Null, 0)
                       ELSE Ret("initialize", "throw", fail, Null, 0)

\* cleanup(); closeThrows: browser.close() rejects.
Cleanup(closeThrows) ==
    IF browser # 0 /\ ~closeThrows
    THEN /\ browser' = 0
         /\ page' = 0
         /\ injected' = FALSE
         /\ ret' = Ret("cleanup", "value", "", Null, 0)
         /\ UNCHANGED launched
    ELSE /\ closeThrows => browser # 0
         /\ ret' = IF closeThrows
                   THEN Ret("cleanup", "throw", "close", Null, 0)
                   ELSE Ret("cleanup", "value", "", Null, 0)
         /\ UNCHANGED controllerVars

\* The operations that start with: if (!this.page) throw new Error('Not initialized')
PageOps == {"writePattern", "getCurrentPattern", "play", "stop", "update", "analyzeAudio"}

\* What each of them returns when the page answers.
PageOpValue(op) ==
    CASE op = "writePattern" -> "Pattern written"
      [] op = "getCurrentPattern" -> "pattern"
      [] op = "play" -> "Playing"
      [] op = "stop" -> "Stopped"
      [] op = "update" -> "Updated and playing"
      [] OTHER -> ""

\* AudioAnalyzer.getAnalysis: analyze() of the injected object, or an error
\* when the page has none.
GetAnalysis ==
    IF injected
    THEN IF NotConnected
         THEN [NotConnectedResult EXCEPT !.op = "analyzeAudio"]
         ELSE [Ret("analyzeAudio", "features", "", Null, 0) EXCEPT !.connected = "true"]
    ELSE Ret("analyzeAudio", "error", "Analyzer not initialized", Null, 0)

\* One of the page operations; pageThrows: a call on the page rejects.
PageOp(op, pageThrows) ==
    /\ ret' = IF page = 0
              THEN Ret(op, "throw", "Not initialized", Null, 0)
              ELSE IF pageThrows
              THEN Ret(op, "throw", "page", Null, 0)
              ELSE IF op = "analyzeAudio" THEN GetAnalysis
              ELSE Ret(op, "value", PageOpValue(op), Null, 0)
    /\ page = 0 => ~pageThrows
    /\ UNCHANGED controllerVars

\* The session on the page is not touched by the controller's own steps.
SessionUnchanged ==
    UNCHANGED <<hooks, tapVars, captureVars, hostVars, edges, created, now, calls>>

InitController ==
    /\ Injected
    /\ browser = 0
    /\ page = 0
    /\ injected = FALSE
    /\ launched = 0

CallInitialize == Budget /\ (\E fail \in InitFailures : Initialize(fail)) /\ SessionUnchanged

CallCleanup == Budget /\ (\E closeThrows \in BOOLEAN : Cleanup(closeThrows)) /\ SessionUnchanged

CallPageOp ==
    /\ Budget
    /\ \E op \in PageOps : \E pageThrows \in BOOLEAN : PageOp(op, pageThrows)
    /\ SessionUnchanged

NextController ==
    \/ CallInitialize
    \/ CallCleanup
    \/ CallPageOp

SpecController == InitController /\ [][NextController]_vars

----------------------------------------------------------------------------
(* Properties.                                                             *)

\* The step is a call of the public operation op (every call is counted and
\* leaves its result in ret).
Called(op) == ops' = ops + 1 /\ ret'.op = op

PublicOps == {"analyze", "startRecording", "stopRecording"}

\* C1: in every reachable state isRecording is true if and only if the
\* recorder handle mediaRecorder is non-null.
C1_RecordingIffRecorder == isRecording <=> mediaRecorder # 0

\* C2: every accepted stopRecording() is resolved exactly once: once the
\* encoder's stop event has fired, a promise that is still pending has a
\* finalization in flight that will resolve it, and no resolver is called
\* twice.
C2_AcceptedStopResolvedOnce ==
    \A p \in 1..Len(promises) :
        /\ promises[p].resolves <= 1
        /\ (promises[p].state = "pending" /\ ~stopQueued)
              => \E r \in readers : r.promise = p

\* C3: startRecording() called while isRecording (also between stopRecording()
\* and the finalization) returns {error: 'Already recording'}, queues nothing
\* and leaves CaptureState, the encoder and the graph wiring unchanged.
C3_StartWhileRecordingRejected ==
    [][(isRecording /\ Called("startRecording"))
          => /\ ret'.outcome = "error"
             /\ ret'.msg = "Already recording"
             /\ UNCHANGED <<captureVars, hostVars, edges, tapVars>>]_vars

\* C3 witness: startRecording() was rejected in the window after
\* stopRecording() and before the finalization.
C3_Witness ==
    /\ isRecording
    /\ recorderState = "inactive"
    /\ ret = Ret("startRecording", "error", "Already recording", Null, 0)

\* C4: stopRecording() on an idle session returns {error: 'Not currently
\* recording'} and changes nothing: CaptureState, TapState, the wiring, and
\* no finalize is requested of the encoder.
C4_StopWhileIdleRejected ==
    [][(~isRecording /\ Called("stopRecording"))
          => /\ ret'.outcome = "error"
             /\ ret'.msg = "Not currently recording"
             /\ UNCHANGED <<captureVars, tapVars, hostVars, edges>>]_vars

\* C4 witness: stopRecording() was rejected after a capture had been finalized.
C4_Witness ==
    /\ ~isRecording
    /\ mediaRecorder # 0
    /\ \E p \in 1..Len(promises) : promises[p].state = "resolved"
    /\ ret = Ret("stopRecording", "error", "Not currently recording", Null, 0)

\* C5: no public operation throws or returns a rejected promise: a failure of
\* a host primitive comes back as {error: message}.
C5_FailuresAreStructured ==
    ret.op \in PublicOps => ret.outcome \notin {"throw", "rejected"}

\* C6: one analysis node per execution context: at most one analysis node is
\* ever created for a context, however often the hook was installed.
C6_OneAnalyserPerContext ==
    \A c \in Contexts : Cardinality({i \in 1..Len(created) : created[i].ctx = c}) <= 1

\* C7: isConnected implies that the analysis node and its frequency buffer exist.
C7_ConnectedHasAnalyser == isConnected => (analyser # Null /\ dataArray # NoBuffer)

\* C7 witness: connected after output connections in two contexts, with a
\* capture running.
C7_Witness ==
    /\ isConnected
    /\ isRecording
    /\ Len(created) = 2
    /\ created[1].ctx # created[2].ctx

\* C8: an intercepted connection to the terminal output sink realizes exactly
\* the two connections source -> analysis node and analysis node -> destination
\* and no direct one, sets isConnected, stamps lastConnectionTime with the
\* current time and records the node connect was invoked on as sourceNode.
C8_OutputConnectionSpliced ==
    [][(Called("connect") /\ IsDestination(ret'.input[2]))
          => LET recv == ret'.input[1]
                 destination == ret'.input[2][1]
             IN  /\ calls' = <<[recv |-> recv, args |-> <<analyser'>>],
                               [recv |-> analyser', args |-> <<destination>>]>>
                 /\ <<recv, destination>> \notin edges'
                 /\ isConnected'
                 /\ lastConnectionTime' = now
                 /\ sourceNode' = recv]_vars

\* C9: an intercepted connection to any other destination invokes the original
\* primitive exactly once with the same receiver and argument list, hands back
\* what it returned (or threw), and leaves TapState and CaptureState unchanged.
C9_OtherConnectionForwarded ==
    [][(Called("connect") /\ ~IsDestination(ret'.input[2]))
          => LET recv == ret'.input[1]
                 args == ret'.input[2]
                 native == NativeConnect(CurSt, recv, args)
             IN  /\ calls' = <<[recv |-> recv, args |-> args]>>
                 /\ ret'.value = native.result
                 /\ (ret'.outcome = "throw") = (native.thrown # "")
                 /\ edges' = native.edges
                 /\ UNCHANGED <<tapVars, captureVars>>]_vars

\* C9 witness: a non-output connection with output and input indices was
\* forwarded while the tap was connected and a capture was running.
C9_Witness ==
    /\ ret.op = "connect"
    /\ ret.outcome = "value"
    /\ Len(ret.input[2]) = 3
    /\ ret.value.kind = "BiquadFilterNode"
    /\ isConnected
    /\ isRecording

\* C10: analyze() before any output connection was intercepted returns
\* {connected: false, error: 'Analyzer not connected'} and does not throw,
\* whatever preceded it.
C10_AnalyzeNotConnected ==
    [][(NotConnected /\ Called("analyze")) => ret' = NotConnectedResult]_vars

\* C10 witness: analyze() answered "not connected" after a non-output
\* connection had been forwarded.
C10_Witness ==
    /\ ret = NotConnectedResult
    /\ edges # {}
    /\ ~isConnected

\* C11: analyze() never mutates TapState (the analyser handle, the identity
\* of the frequency buffer, isConnected, lastConnectionTime, sourceNode) nor
\* CaptureState, in its connected and in its not-connected branch.
C11_AnalyzeIsPureRead ==
    [][Called("analyze") => UNCHANGED <<tapVars, captureVars>>]_vars

\* C11 witness: analyze() returned features, later than the connection was
\* stamped, while a capture was running.
C11_Witness ==
    /\ ret.op = "analyze"
    /\ ret.outcome = "features"
    /\ now > lastConnectionTime
    /\ isRecording

\* C12: startRecording() on an idle session returns 'Analyzer not connected -
\* play pattern first' without an analysis node and 'Source node not available
\* - play pattern first' with an analysis node and no source node; neither
\* creates a stream destination or an encoder nor changes CaptureState.
C12_StartNotReady ==
    /\ \A an \in {AnalyserNode(c, 1) : c \in Contexts} :
          StartChecks(FALSE, an, Null) = "Source node not available - play pattern first"
    /\ \A src \in Sources \cup {Null} :
          StartChecks(FALSE, Null, src) = "Analyzer not connected - play pattern first"
    /\ [][(~isRecording /\ Called("startRecording") /\ (analyser = Null \/ sourceNode = Null))
            => /\ ret'.outcome = "error"
               /\ ret'.msg = IF analyser = Null
                             THEN "Analyzer not connected - play pattern first"
                             ELSE "Source node not available - play pattern first"
               /\ UNCHANGED <<captureVars, hostVars, edges>>]_vars

\* C12 witness: startRecording() was refused for want of an analysis node
\* after a non-output connection.
C12_Witness ==
    /\ ret = Ret("startRecording", "error", "Analyzer not connected - play pattern first",
                 Null, 0)
    /\ edges # {}
    /\ captures = 0

\* C13: for a spectrum of 1024 bins all of magnitude v (0..255), analyze()
\* reports average v, each of the five band energies v, centroid (N-1)/2
\* when v > 0 and 0 when v = 0, hence brightness 'bright' resp. 'dark'.
C13_UniformSpectrum ==
    (ret.op = "analyze" /\ ret.outcome = "features" /\ ret.input = Uniform(ret.input[0]))
        => LET v == ret.input[0]
               f == ret.features
           IN  /\ Bins = 1024
               /\ f.average = 10 * v
               /\ f.bass = v /\ f.lowMid = v /\ f.mid = v /\ f.highMid = v /\ f.treble = v
               /\ 2 * f.centroid = IF v > 0 THEN 10 * (Bins - 1) ELSE 0
               /\ f.brightness = IF v > 0 THEN "bright" ELSE "dark"

\* C13 witness: analyze() returned the features of a uniform spectrum of
\* magnitude 200.
C13_Witness ==
    /\ ret.op = "analyze"
    /\ ret.outcome = "features"
    /\ ret.input = Uniform(200)
    /\ ret.features.brightness = "bright"

\* A capture is finalized in this step: reader.onloadend runs.
Finalized == isRecording /\ ~isRecording'

\* C14: when a successful stopRecording() is finalized with the source node
\* and the capture destination in one context, the connection startRecording()
\* made into the capture destination is gone, whatever output connections
\* were intercepted in between.
C14_CaptureWiringRemoved ==
    [][(Finalized /\ sourceNode.ctx = recordingDestination.ctx)
          => \A edge \in edges' : edge[2] # recordingDestination]_vars

\* The messages with which startRecording() refuses a call because of the
\* state of the session.
Refusals ==
    {"Already recording", "Analyzer not connected - play pattern first",
     "Source node not available - play pattern first"}

\* C15: isRecording becomes true only in a successful startRecording() and
\* false only when the FileReader of an accepted stopRecording() completes;
\* that step leaves audioChunks empty and recordingDestination null, and a
\* later startRecording() on a connected session is not refused.
C15_CaptureStateMachine ==
    [][/\ (~isRecording /\ isRecording')
            => Called("startRecording") /\ ret'.outcome = "success"
       /\ Finalized
            => /\ ops' = ops
               /\ \E r \in readers : readers' = readers \ {r}
               /\ audioChunks' = <<>>
               /\ recordingDestination' = Null
       /\ (~isRecording /\ analyser # Null /\ sourceNode # Null /\ Called("startRecording"))
            => \/ ret'.outcome = "success" /\ isRecording'
               \/ ret'.outcome = "error" /\ ret'.msg \notin Refusals]_vars

\* C15 witness: a second capture was started after the first was finalized.
C15_Witness ==
    /\ isRecording
    /\ captures = 2
    /\ Len(promises) = 1
    /\ promises[1].state = "resolved"
    /\ ret.op = "startRecording"
    /\ ret.outcome = "success"

\* The non-empty chunks of a sequence of chunks, in order.
NonEmpty(chunks) == SelectSeq(chunks, LAMBDA chunk : chunk.size > 0)

C17_FailedStartLeavesNoTrace ==
    [][(Called("startRecording") /\ ret'.outcome = "error")
          => UNCHANGED <<captureVars, edges>>]_vars

\* C18: whenever an analysis node is held, a source node is held too and
\* belongs to the same context, and startRecording() never answers 'Source
\* node not available - play pattern first'.
C18_AnalyserHasSource ==
    /\ analyser # Null => (sourceNode # Null /\ sourceNode.ctx = analyser.ctx)
    /\ ret.msg # "Source node not available - play pattern first"

\* C18 witness: a capture was started after output connections in two contexts.
C18_Witness ==
    /\ Len(created) = 2
    /\ analyser.ctx = "c2"
    /\ sourceNode.ctx = "c2"
    /\ ret.op = "startRecording"
    /\ ret.outcome = "success"

\* C19: the duration a stopRecording() is resolved with is the time from
\* recordingStartTime to the encoder's stop event, in seconds rounded to one
\* decimal (halves up), and is never negative.
C19_DurationToStopEvent ==
    [][/\ \A r \in readers' \ readers :
            r.duration = now' - recordingStartTime /\ r.duration >= 0
       /\ \A p \in DOMAIN promises :
            (promises[p].state = "pending" /\ promises'[p].state = "resolved")
               => \E r \in readers :
                     LET tenths == promises'[p].result.duration
                     IN  /\ r.promise = p
                         /\ tenths >= 0
                         /\ 100 * tenths - 50 <= r.duration
                         /\ r.duration < 100 * tenths + 50]_vars

\* C19 witness: a capture started at time 0 was resolved after the clock had
\* advanced by 50 ms, with a duration of 0.1 s.
C19_Witness ==
    \E p \in DOMAIN promises :
        /\ promises[p].state = "resolved"
        /\ promises[p].result.duration = 1
        /\ recordingStartTime = 0
        /\ now = 50

\* C20: whenever initialize() answers 'Already initialized' the controller
\* holds a page on which the analyzer has been injected, and each page
\* operation throws 'Not initialized' exactly when no page is held.
C20_InitializedMeansReady ==
    [][/\ (Called("initialize") /\ ret'.msg = "Already initialized")
            => (page # 0 /\ injected)
       /\ \A op \in PageOps :
            Called(op) => ((ret'.outcome = "throw" /\ ret'.msg = "Not initialized")
                              <=> page = 0)]_vars

====
